---- MODULE Spec2Model ----
(***************************************************************************)
(* Model of DSQLCustomConnectionPool (src/connectionpooling_original.py):  *)
(* a queue.Queue of idle DSQLConnectionWrapper objects, the counter        *)
(* _current_connections, the lock _pool_lock, and worker threads that use  *)
(* the pool through get_db_connection and close_all; and of                *)
(* DSQLPoolManager (src/psycopg2_connectionpooling.py), which wraps a      *)
(* psycopg2 ThreadedConnectionPool opened with one auth token.             *)
(***************************************************************************)
EXTENDS Integers, Sequences, FiniteSets, TLC

\* ---------------------------------------------------------------- bounds
NumThreads == 2
MaxCreated == 3
MaxMaxConn == 2
MaxMinConn == 2
MaxTime == 2
MaxMinted == 3
MaxConnectionAge == 1

Threads == 1..NumThreads
Conns == 1..MaxCreated
Tokens == 1..MaxMinted
NoConn == 0

VARIABLES
  maxconn,              \* self.maxconn
  minconn,              \* self.minconn
  init_i,               \* loop index of _init_pool (= minconn once constructed)
  pool,                 \* self._pool, a queue.Queue(maxsize=maxconn)
  current_connections,  \* self._current_connections
  pool_lock,            \* self._pool_lock: 0 = free, else the holding thread
  created,              \* number of DSQLConnectionWrapper objects ever built
  minted,               \* number of auth tokens get_auth_token has returned
  token_opens,          \* psycopg2.connect calls made with each token as password
  closed,               \* connection.closed of each wrapper
  severed,              \* the server side of the connection is gone
  created_at,           \* DSQLConnectionWrapper.created_at
  probe_failed,         \* the latest is_healthy() on the wrapper returned False
  now,                  \* datetime.now()
  pc,                   \* position of each thread
  wrapper,              \* conn_wrapper of get_db_connection (0 = None)
  popped,               \* conn_wrapper of get_connection (the wrapper taken from the queue)
  result,               \* how the thread's get_connection ended
  bodyExit,             \* how the caller's with-body ended
  released,             \* arguments of the put_connection calls of this scope
  quiet,                \* close_all calls completed back to back, and the state after the first
  shutdown,             \* some close_all call has completed
  pm_pool,              \* DSQLPoolManager.pool: "none", "warming", "ready", or "failed"
  pool_token,           \* the password kwarg kept by the ThreadedConnectionPool (0 = none)
  tcp_pool,             \* ThreadedConnectionPool._pool, the list of idle connections
  tcp_used              \* ThreadedConnectionPool._used, the connections handed out

vars == << maxconn, minconn, init_i, pool, current_connections, pool_lock,
           created, minted, token_opens, closed, severed, created_at,
           probe_failed, now,
           pc, wrapper, popped, result, bodyExit, released, quiet, shutdown,
           pm_pool, pool_token, tcp_pool, tcp_used >>

poolVars == << pool, current_connections, pool_lock >>
tokenVars == << minted, token_opens >>
connVars == << created, tokenVars, closed, severed, created_at, probe_failed >>
confVars == << maxconn, minconn, init_i >>
pmVars == << pm_pool, pool_token, tcp_pool, tcp_used >>

\* ------------------------------------------------------------- helpers
Range(s) == { s[i] : i \in 1..Len(s) }

\* queue.Queue.full(): maxsize > 0 and qsize >= maxsize
QueueFull(q, maxsize) == maxsize > 0 /\ Len(q) >= maxsize

\* DSQLConnectionWrapper.is_healthy with an age limit (not what the code does)
IsHealthyAged(c) == ~closed[c] /\ ~severed[c] /\ now - created_at[c] <= MaxConnectionAge
\* DSQLConnectionWrapper.is_healthy: closed flag, then SELECT 1
IsHealthy(c) == ~closed[c] /\ ~severed[c]

\* get_connection, line 148: the popped wrapper is returned iff healthy
ReturnsPoppedNever(healthy) == FALSE
ReturnsPoppedAlways(healthy) == TRUE
ReturnsPopped(healthy) == healthy

\* get_connection, lines 155-158: the wrapper returned after a failed probe
ReplacementIsDiscarded(old, new) == old
Replacement(old, new) == new

\* get_connection, line 161: room to grow
MayGrowAlways(cur, mx) == TRUE
MayGrow(cur, mx) == cur < mx

\* get_connection, lines 163-164: the counter is bumped after
\* _create_connection, so an exception in it leaves the counter alone
CountBeforeCreate(cur) == cur + 1
CountOnCreateError(cur) == cur

\* get_connection, lines 154-158: the replacement of a discarded wrapper does
\* not touch the counter
ReplaceCountBumped(cur) == cur + 1
ReplaceCount(cur) == cur

\* put_connection, line 181: the counter after a wrapper was dropped on queue.Full
CountAfterDropKept(cur) == cur
CountAfterDrop(cur) == cur - 1

\* get_connection, line 143: _pool_lock stays with the thread while it creates
LockFreedForCreate(t) == 0
LockWhileCreating(t) == t

\* get_connection, line 170: raising inside the with block gives the lock up
LockKeptAfterRaise(t) == t
LockAfterRaise(t) == 0

\* get_db_connection, line 194: the finally block releases iff a wrapper was obtained
ReleasesOnlyOnSuccess(w, exit) == w # NoConn /\ exit = "ok"
Releases(w, exit) == w # NoConn

\* put_connection, line 175: the wrapper goes back to the queue unless queue.Full
PutsBackUnlessErrored(q, mx, exit) == ~QueueFull(q, mx) /\ exit = "ok"
PutsBack(q, mx, exit) == ~QueueFull(q, mx)

\* close_all, line 216
CloseAllCountKeep(cur) == IF cur > 0 THEN cur - 1 ELSE cur
CloseAllCount(cur) == 0

\* get_connection, line 146: the item get(block=False) takes from a queue.Queue
QueueGetItemNewest(q) == q[Len(q)]
QueueGetItem(q) == Head(q)

\* get_connection, line 146: what remains in the queue after get(block=False)
QueueAfterGetPeek(q) == q
QueueAfterGet(q) == Tail(q)

\* connections lent to a caller: from the return of get_connection to put_connection
Holding(t) == pc[t] \in {"body", "put"}
CheckedOut == { wrapper[t] : t \in { u \in Threads : Holding(u) } }
Constructed == init_i = minconn

\* no close_all call is running or has run undisturbed
QuietOff == [n |-> 0, by |-> 0, idle |-> {}, pool |-> << >>, cur |-> 0, closed |-> {}]
ClosedSet == { c \in Conns : closed[c] }

\* ---------------------------------------------------------------- Init
Init ==
  /\ maxconn \in 1..MaxMaxConn
  /\ minconn \in 0..MaxMinConn
  /\ init_i = 0
  /\ pool = << >>
  /\ current_connections = 0
  /\ pool_lock = 0
  /\ created = 0
  /\ minted = 0
  /\ token_opens = [k \in Tokens |-> 0]
  /\ closed = [c \in Conns |-> FALSE]
  /\ severed = [c \in Conns |-> FALSE]
  /\ created_at = [c \in Conns |-> 0]
  /\ probe_failed = [c \in Conns |-> FALSE]
  /\ now = 0
  /\ pc = [t \in Threads |-> "idle"]
  /\ wrapper = [t \in Threads |-> NoConn]
  /\ popped = [t \in Threads |-> NoConn]
  /\ result = [t \in Threads |-> "none"]
  /\ bodyExit = [t \in Threads |-> "none"]
  /\ released = [t \in Threads |-> << >>]
  /\ quiet = QuietOff
  /\ shutdown = FALSE
  /\ pm_pool = "none"
  /\ pool_token = 0
  /\ tcp_pool = << >>
  /\ tcp_used = {}

\* _create_connection, line 127: get_auth_token returns a token of its own
\* for this call
NewTokenCached(m) == IF m = 0 THEN 1 ELSE m
NewToken(m) == m + 1

\* _create_connection, lines 127-136: the token just minted is the password
\* of one psycopg2.connect call
MintAndOpen ==
  /\ minted < MaxMinted
  /\ minted' = NewToken(minted)
  /\ token_opens' = [token_opens EXCEPT ![minted'] = @ + 1]

\* _create_connection raised: get_auth_token failed (no token, no connect),
\* or psycopg2.connect failed with the token just minted
CreateFails ==
  /\ \/ UNCHANGED tokenVars
     \/ MintAndOpen
  /\ UNCHANGED << created, closed, severed, created_at, probe_failed >>

\* _create_connection succeeded: a new wrapper, stamped with datetime.now()
NewConnection ==
  /\ created < MaxCreated
  /\ MintAndOpen
  /\ created' = created + 1
  /\ created_at' = [created_at EXCEPT ![created + 1] = now]
  /\ UNCHANGED << closed, severed, probe_failed >>

\* any step that is not part of an undisturbed close_all ends the back-to-back run
Disturb == quiet' = QuietOff

\* ------------------------------------------------- __init__ / _init_pool
\* one iteration of the pre-warm loop: create, put(block=False), count;
\* any exception (mint, connect, queue.Full) is logged and swallowed
InitPoolStep ==
  /\ UNCHANGED pmVars
  /\ init_i < minconn
  /\ init_i' = init_i + 1
  /\ \/ /\ NewConnection
        /\ IF QueueFull(pool, maxconn)
             THEN UNCHANGED << pool, current_connections >>
             ELSE /\ pool' = Append(pool, created + 1)
                  /\ current_connections' = current_connections + 1
     \/ /\ CreateFails
        /\ UNCHANGED << pool, current_connections >>
  /\ UNCHANGED << maxconn, minconn, shutdown, pool_lock, now, pc, wrapper, popped,
                  result, bodyExit, released, quiet >>

\* ------------------------------------------------------ get_db_connection
\* get_db_connection, finally: if conn_wrapper: self.put_connection(conn_wrapper);
\* w is conn_wrapper and exit is how the try block was left
Finally(t, w, exit) ==
  IF Releases(w, exit)
    THEN /\ released' = [released EXCEPT ![t] = Append(@, w)]
         /\ pc' = [pc EXCEPT ![t] = "put"]
    ELSE /\ pc' = [pc EXCEPT ![t] = "done"]
         /\ UNCHANGED released

\* DSQLConnectionWrapper.close(); a closed wrapper is garbage, its other fields
\* are no longer followed
CloseWrapper(c) ==
  /\ closed' = [closed EXCEPT ![c] = TRUE]
  /\ severed' = [severed EXCEPT ![c] = FALSE]
  /\ created_at' = [created_at EXCEPT ![c] = 0]

\* entry of the context manager: conn_wrapper = None, then get_connection
Start(t) ==
  /\ UNCHANGED pmVars
  /\ Constructed
  /\ pc[t] = "idle"
  /\ pc' = [pc EXCEPT ![t] = "lock"]
  /\ Disturb
  /\ UNCHANGED << confVars, shutdown, poolVars, connVars, now, wrapper, popped, result,
                  bodyExit, released >>

\* get_connection: with self._pool_lock
AcquireLock(t) ==
  /\ UNCHANGED pmVars
  /\ pc[t] = "lock"
  /\ pool_lock = 0
  /\ pool_lock' = t
  /\ pc' = [pc EXCEPT ![t] = "pop"]
  /\ Disturb
  /\ UNCHANGED << confVars, shutdown, pool, current_connections, connVars, now,
                  wrapper, popped, result, bodyExit, released >>

\* get_connection: self._pool.get(block=False), or queue.Empty
Pop(t) ==
  /\ UNCHANGED pmVars
  /\ pc[t] = "pop"
  /\ IF pool # << >>
       THEN /\ popped' = [popped EXCEPT ![t] = QueueGetItem(pool)]
            /\ pool' = QueueAfterGet(pool)
            /\ pc' = [pc EXCEPT ![t] = "probe"]
       ELSE /\ pc' = [pc EXCEPT ![t] = "empty"]
            /\ UNCHANGED << pool, popped >>
  /\ Disturb
  /\ UNCHANGED << confVars, shutdown, current_connections, pool_lock, connVars, now,
                  wrapper, result, bodyExit, released >>

\* get_connection: is_healthy(); healthy -> return it, else close it and replace
Probe(t) ==
  /\ UNCHANGED pmVars
  /\ pc[t] = "probe"
  /\ LET c == popped[t]
         healthy == IsHealthy(c)
     IN /\ probe_failed' = [probe_failed EXCEPT ![c] = ~healthy]
        /\ IF ReturnsPopped(healthy)
             THEN /\ wrapper' = [wrapper EXCEPT ![t] = c]
                  /\ result' = [result EXCEPT ![t] = "conn"]
                  /\ pool_lock' = 0
                  /\ pc' = [pc EXCEPT ![t] = "body"]
                  /\ UNCHANGED << closed, severed, created_at >>
             ELSE /\ CloseWrapper(c)
                  /\ pc' = [pc EXCEPT ![t] = "replace"]
                  /\ UNCHANGED << wrapper, result, pool_lock >>
  /\ Disturb
  /\ UNCHANGED << confVars, shutdown, pool, current_connections, created,
                  tokenVars, now, popped, bodyExit, released >>

\* get_connection, line 155: _create_connection for the discarded wrapper;
\* the counter is not touched; a mint or connect error leaves through the with
Replace(t) ==
  /\ UNCHANGED pmVars
  /\ pc[t] = "replace"
  /\ pool_lock' = 0
  /\ \/ /\ NewConnection
        /\ wrapper' = [wrapper EXCEPT ![t] = Replacement(popped[t], created + 1)]
        /\ result' = [result EXCEPT ![t] = "conn"]
        /\ pc' = [pc EXCEPT ![t] = "body"]
        /\ current_connections' = ReplaceCount(current_connections)
        /\ UNCHANGED released
     \/ /\ result' = [result EXCEPT ![t] = "create_error"]
        /\ Finally(t, wrapper[t], "error")
        /\ CreateFails
        /\ UNCHANGED << wrapper, current_connections >>
  /\ Disturb
  /\ UNCHANGED << confVars, shutdown, pool, now, popped, bodyExit >>

\* get_connection, except queue.Empty: grow below maxconn, else raise
EmptyCheck(t) ==
  /\ UNCHANGED pmVars
  /\ pc[t] = "empty"
  /\ IF MayGrow(current_connections, maxconn)
       THEN /\ pc' = [pc EXCEPT ![t] = "grow"]
            /\ pool_lock' = LockWhileCreating(t)
            /\ UNCHANGED << result, released >>
       ELSE /\ result' = [result EXCEPT ![t] = "exhausted"]
            /\ pool_lock' = LockAfterRaise(t)
            /\ Finally(t, wrapper[t], "error")
  /\ Disturb
  /\ UNCHANGED << confVars, shutdown, pool, current_connections, connVars, now,
                  wrapper, popped, bodyExit >>

\* get_connection, lines 163-167: _create_connection, then count it
Grow(t) ==
  /\ UNCHANGED pmVars
  /\ pc[t] = "grow"
  /\ pool_lock' = 0
  /\ \/ /\ NewConnection
        /\ current_connections' = current_connections + 1
        /\ wrapper' = [wrapper EXCEPT ![t] = created + 1]
        /\ result' = [result EXCEPT ![t] = "conn"]
        /\ pc' = [pc EXCEPT ![t] = "body"]
        /\ UNCHANGED released
     \/ /\ result' = [result EXCEPT ![t] = "create_error"]
        /\ Finally(t, wrapper[t], "error")
        /\ CreateFails
        /\ current_connections' = CountOnCreateError(current_connections)
        /\ UNCHANGED wrapper
  /\ Disturb
  /\ UNCHANGED << confVars, shutdown, pool, now, popped, bodyExit >>

\* the caller's with-body returns, raises an Exception, or is cancelled;
\* the generator is resumed and runs its finally block
Body(t) ==
  /\ UNCHANGED pmVars
  /\ pc[t] = "body"
  /\ \E exit \in {"ok", "error", "cancel"} :
        /\ bodyExit' = [bodyExit EXCEPT ![t] = exit]
        /\ Finally(t, wrapper[t], exit)
  /\ Disturb
  /\ UNCHANGED << confVars, shutdown, poolVars, connVars, now, wrapper, popped, result >>

\* put_connection: self._pool.put(block=False); on queue.Full close the wrapper
Put(t) ==
  /\ UNCHANGED pmVars
  /\ pc[t] = "put"
  /\ IF PutsBack(pool, maxconn, bodyExit[t])
       THEN /\ pool' = Append(pool, wrapper[t])
            /\ pc' = [pc EXCEPT ![t] = "done"]
            /\ UNCHANGED << closed, severed, created_at >>
       ELSE /\ CloseWrapper(wrapper[t])
            /\ pc' = [pc EXCEPT ![t] = "put_lock"]
            /\ UNCHANGED pool
  /\ Disturb
  /\ UNCHANGED << confVars, shutdown, current_connections, pool_lock, created,
                  tokenVars, probe_failed, now, wrapper, popped, result,
                  bodyExit, released >>

\* put_connection, lines 180-181: with self._pool_lock: counter -= 1
PutDecrement(t) ==
  /\ UNCHANGED pmVars
  /\ pc[t] = "put_lock"
  /\ pool_lock = 0
  /\ current_connections' = CountAfterDrop(current_connections)
  /\ pc' = [pc EXCEPT ![t] = "done"]
  /\ Disturb
  /\ UNCHANGED << confVars, shutdown, pool, pool_lock, connVars, now, wrapper, popped,
                  result, bodyExit, released >>

\* the with statement is over; the generator and its locals are gone
Return(t) ==
  /\ UNCHANGED pmVars
  /\ pc[t] = "done"
  /\ pc' = [pc EXCEPT ![t] = "idle"]
  /\ wrapper' = [wrapper EXCEPT ![t] = NoConn]
  /\ result' = [result EXCEPT ![t] = "none"]
  /\ bodyExit' = [bodyExit EXCEPT ![t] = "none"]
  /\ released' = [released EXCEPT ![t] = << >>]
  /\ popped' = [popped EXCEPT ![t] = NoConn]
  /\ Disturb
  /\ UNCHANGED << confVars, shutdown, poolVars, connVars, now >>

\* --------------------------------------------------------------- close_all
\* quiet while thread t runs close_all and nobody else has stepped since its start
KeepQuiet(t) == quiet' = IF quiet.by = t THEN quiet ELSE QuietOff

\* a caller outside get_db_connection calls close_all
CloseAllStart(t) ==
  /\ UNCHANGED pmVars
  /\ Constructed
  /\ pc[t] = "idle"
  /\ pc' = [pc EXCEPT ![t] = "ca_check"]
  /\ quiet' = IF quiet.by = t /\ quiet.n >= 1
                 THEN quiet
                 ELSE [QuietOff EXCEPT !.by = t, !.idle = Range(pool)]
  /\ UNCHANGED << confVars, shutdown, poolVars, connVars, now, wrapper, popped,
                  result, bodyExit, released >>

\* close_all: while not self._pool.empty()
CloseAllCheck(t) ==
  /\ UNCHANGED pmVars
  /\ pc[t] = "ca_check"
  /\ pc' = [pc EXCEPT ![t] = IF pool = << >> THEN "ca_lock" ELSE "ca_get"]
  /\ KeepQuiet(t)
  /\ UNCHANGED << confVars, shutdown, poolVars, connVars, now, wrapper, popped,
                  result, bodyExit, released >>

\* close_all: get(block=False) and close(); queue.Empty breaks the loop
CloseAllGet(t) ==
  /\ UNCHANGED pmVars
  /\ pc[t] = "ca_get"
  /\ IF pool # << >>
       THEN /\ CloseWrapper(Head(pool))
            /\ pool' = Tail(pool)
            /\ pc' = [pc EXCEPT ![t] = "ca_check"]
       ELSE /\ pc' = [pc EXCEPT ![t] = "ca_lock"]
            /\ UNCHANGED << pool, closed, severed, created_at >>
  /\ KeepQuiet(t)
  /\ UNCHANGED << confVars, shutdown, current_connections, pool_lock, created,
                  tokenVars, probe_failed, now, wrapper, popped, result,
                  bodyExit, released >>

\* close_all, lines 215-216: with self._pool_lock: counter = 0
CloseAllReset(t) ==
  /\ UNCHANGED pmVars
  /\ pc[t] = "ca_lock"
  /\ pool_lock = 0
  /\ current_connections' = CloseAllCount(current_connections)
  /\ pc' = [pc EXCEPT ![t] = "idle"]
  /\ shutdown' = TRUE
  /\ quiet' = IF quiet.by # t THEN QuietOff
                 ELSE IF quiet.n = 0
                 THEN [quiet EXCEPT !.n = 1, !.pool = pool,
                                    !.cur = current_connections', !.closed = ClosedSet]
                 ELSE [quiet EXCEPT !.n = 2]
  /\ UNCHANGED << confVars, pool, pool_lock, connVars, now, wrapper, popped,
                  result, bodyExit, released >>

\* ------------------------------------------------------------- environment
\* the server (or the network) drops an open connection
Sever(c) ==
  /\ UNCHANGED pmVars
  /\ c \in 1..created
  /\ ~closed[c]
  /\ ~severed[c]
  /\ severed' = [severed EXCEPT ![c] = TRUE]
  /\ Disturb
  /\ UNCHANGED << confVars, shutdown, poolVars, created, tokenVars, closed,
                  created_at, probe_failed,
                  now, pc, wrapper, popped, result, bodyExit, released >>

\* time passes
Tick ==
  /\ UNCHANGED pmVars
  /\ now < MaxTime
  /\ now' = now + 1
  /\ Disturb
  /\ UNCHANGED << confVars, shutdown, poolVars, connVars, pc, wrapper, popped, result,
                  bodyExit, released >>

\* pre-warm, the workers' get_db_connection scopes and the server
PoolNext ==
  \/ InitPoolStep
  \/ \E t \in Threads : Start(t)
  \/ \E t \in Threads : AcquireLock(t)
  \/ \E t \in Threads : Pop(t)
  \/ \E t \in Threads : Probe(t)
  \/ \E t \in Threads : Replace(t)
  \/ \E t \in Threads : EmptyCheck(t)
  \/ \E t \in Threads : Grow(t)
  \/ \E t \in Threads : Body(t)
  \/ \E t \in Threads : Put(t)
  \/ \E t \in Threads : Return(t)
  \/ \E c \in Conns : Sever(c)

\* close_all, and the queue.Full branch of put_connection, which only a
\* counter reset by close_all makes reachable
CloseAllNext ==
  \/ \E t \in Threads : PutDecrement(t)
  \/ \E t \in Threads : CloseAllStart(t)
  \/ \E t \in Threads : CloseAllCheck(t)
  \/ \E t \in Threads : CloseAllGet(t)
  \/ \E t \in Threads : CloseAllReset(t)

\* the pool under get_db_connection and close_all callers, at one instant
Next == PoolNext \/ CloseAllNext

Spec == Init /\ [][Next]_vars

\* the pool under get_db_connection callers while time passes
NextAge == PoolNext \/ Tick

SpecAge == Init /\ [][NextAge]_vars

\* the steps of thread t that need no lock
Progress(t) ==
  \/ Pop(t) \/ Probe(t) \/ Replace(t) \/ EmptyCheck(t) \/ Grow(t)
  \/ Body(t) \/ Put(t) \/ Return(t)
  \/ CloseAllCheck(t) \/ CloseAllGet(t)

\* every step of thread t inside a call, the three that take _pool_lock included
Step(t) == Progress(t) \/ AcquireLock(t) \/ PutDecrement(t) \/ CloseAllReset(t)

\* fair scheduling: a thread inside a call that can step again and again does
\* step, so a thread waiting for _pool_lock gets it if it is freed again and
\* again; callers need not call
Fairness == \A t \in Threads : SF_vars(Step(t))

\* DSQLCustomConnectionPool(cluster_id, minconn=1, maxconn=1)
InitLive == Init /\ maxconn = 1 /\ minconn = 1

\* the pool of one connection under fairly scheduled callers
SpecLive == InitLive /\ [][Next]_vars /\ Fairness

\* ------------------------------------------------------- DSQLPoolManager
\* the state of DSQLCustomConnectionPool, which DSQLPoolManager does not have
customVars == << init_i, pool, current_connections, pool_lock, created_at,
                 probe_failed, now, popped, result, bodyExit, released, quiet,
                 shutdown >>

\* the physical connections that are open on both sides
OpenConns == { c \in 1..created : ~closed[c] /\ ~severed[c] }

\* ThreadedConnectionPool._connect: psycopg2.connect(**self._kwargs), the
\* password being the token given to the constructor
PoolConnect ==
  /\ created < MaxCreated
  /\ created' = created + 1
  /\ token_opens' = [token_opens EXCEPT ![pool_token] = @ + 1]
  /\ UNCHANGED << minted, closed, severed >>

\* ThreadedConnectionPool._connect raised
PoolConnectFails ==
  /\ token_opens[pool_token] < MaxCreated
  /\ token_opens' = [token_opens EXCEPT ![pool_token] = @ + 1]
  /\ UNCHANGED << created, minted, closed, severed >>

\* _init_pool, line 99: one token for the pool; an exception leaves __init__
PMInitPool ==
  /\ pm_pool = "none"
  /\ \/ /\ minted < MaxMinted
        /\ minted' = NewToken(minted)
        /\ pool_token' = minted'
        /\ pm_pool' = IF minconn = 0 THEN "ready" ELSE "warming"
     \/ /\ pm_pool' = "failed"
        /\ UNCHANGED << minted, pool_token >>
  /\ UNCHANGED << maxconn, minconn, customVars, created, token_opens, closed,
                  severed, pc, wrapper, tcp_pool, tcp_used >>

\* _init_pool, lines 104-113: ThreadedConnectionPool(minconn, maxconn, ...,
\* password=token) opens minconn connections; an exception leaves __init__
PMPoolConnect ==
  /\ pm_pool = "warming"
  /\ \/ /\ PoolConnect
        /\ tcp_pool' = Append(tcp_pool, created + 1)
        /\ pm_pool' = IF Len(tcp_pool') = minconn THEN "ready" ELSE "warming"
     \/ /\ PoolConnectFails
        /\ pm_pool' = "failed"
        /\ UNCHANGED tcp_pool
  /\ UNCHANGED << maxconn, minconn, customVars, pc, wrapper, pool_token, tcp_used >>

\* get_db_connection, lines 135-138: connection = None; the pool exists
PMStart(t) ==
  /\ pm_pool = "ready"
  /\ pc[t] = "idle"
  /\ pc' = [pc EXCEPT ![t] = "pm_get"]
  /\ UNCHANGED << maxconn, minconn, customVars, connVars, wrapper, pmVars >>

\* get_db_connection, line 140: self.pool.getconn(), under the pool's own
\* lock: the last idle connection, or PoolError when maxconn are in use, or a
\* new connection; an exception leaves with connection = None
PMGetConn(t) ==
  /\ pc[t] = "pm_get"
  /\ IF tcp_pool # << >>
       THEN /\ wrapper' = [wrapper EXCEPT ![t] = tcp_pool[Len(tcp_pool)]]
            /\ tcp_pool' = SubSeq(tcp_pool, 1, Len(tcp_pool) - 1)
            /\ tcp_used' = tcp_used \cup {tcp_pool[Len(tcp_pool)]}
            /\ pc' = [pc EXCEPT ![t] = "pm_probe"]
            /\ UNCHANGED << created, tokenVars, closed, severed >>
       ELSE IF Cardinality(tcp_used) = maxconn
       THEN /\ pc' = [pc EXCEPT ![t] = "idle"]
            /\ UNCHANGED << wrapper, tcp_pool, tcp_used, created, tokenVars,
                            closed, severed >>
       ELSE \/ /\ PoolConnect
               /\ wrapper' = [wrapper EXCEPT ![t] = created + 1]
               /\ tcp_used' = tcp_used \cup {created + 1}
               /\ pc' = [pc EXCEPT ![t] = "pm_probe"]
               /\ UNCHANGED tcp_pool
            \/ /\ PoolConnectFails
               /\ pc' = [pc EXCEPT ![t] = "idle"]
               /\ UNCHANGED << wrapper, tcp_pool, tcp_used >>
  /\ UNCHANGED << maxconn, minconn, customVars, pm_pool, pool_token >>

\* get_db_connection, lines 141-153: connection.closed and SELECT 1; a
\* connection that fails either is given back with putconn(close=True), which
\* closes it and forgets it, and is replaced by _create_single_connection
PMProbe(t) ==
  /\ pc[t] = "pm_probe"
  /\ IF IsHealthy(wrapper[t])
       THEN /\ pc' = [pc EXCEPT ![t] = "pm_body"]
            /\ UNCHANGED << closed, severed, tcp_used >>
       ELSE /\ closed' = [closed EXCEPT ![wrapper[t]] = TRUE]
            /\ severed' = [severed EXCEPT ![wrapper[t]] = FALSE]
            /\ tcp_used' = tcp_used \ {wrapper[t]}
            /\ pc' = [pc EXCEPT ![t] = "pm_single"]
  /\ UNCHANGED << maxconn, minconn, customVars, created, tokenVars, wrapper,
                  pm_pool, pool_token, tcp_pool >>

\* _create_single_connection, lines 118-131: a token of its own and one
\* psycopg2.connect outside the pool; on an exception the finally block finds
\* the old, closed connection, putconn raises on it and it is closed again
PMCreateSingle(t) ==
  /\ pc[t] = "pm_single"
  /\ \/ /\ created < MaxCreated
        /\ MintAndOpen
        /\ created' = created + 1
        /\ wrapper' = [wrapper EXCEPT ![t] = created + 1]
        /\ pc' = [pc EXCEPT ![t] = "pm_body"]
     \/ /\ \/ UNCHANGED tokenVars
           \/ MintAndOpen
        /\ wrapper' = [wrapper EXCEPT ![t] = NoConn]
        /\ pc' = [pc EXCEPT ![t] = "idle"]
        /\ UNCHANGED created
  /\ UNCHANGED << maxconn, minconn, customVars, closed, severed, pmVars >>

\* get_db_connection, line 155: the caller's with-body ends
PMBody(t) ==
  /\ pc[t] = "pm_body"
  /\ pc' = [pc EXCEPT ![t] = "pm_put"]
  /\ UNCHANGED << maxconn, minconn, customVars, connVars, wrapper, pmVars >>

\* get_db_connection, lines 160-166: self.pool.putconn(connection): a
\* connection the pool does not know raises PoolError and is closed by the
\* except clause; a known one is kept idle while fewer than minconn are idle
\* (unless the driver has found it broken), else closed
PMPutConn(t) ==
  /\ pc[t] = "pm_put"
  /\ LET c == wrapper[t]
     IN IF c \notin tcp_used
          THEN /\ closed' = [closed EXCEPT ![c] = TRUE]
               /\ severed' = [severed EXCEPT ![c] = FALSE]
               /\ UNCHANGED << tcp_pool, tcp_used >>
          ELSE /\ tcp_used' = tcp_used \ {c}
               /\ \/ /\ Len(tcp_pool) < minconn
                     /\ tcp_pool' = Append(tcp_pool, c)
                     /\ UNCHANGED << closed, severed >>
                  \/ /\ Len(tcp_pool) >= minconn \/ severed[c]
                     /\ closed' = [closed EXCEPT ![c] = TRUE]
                     /\ severed' = [severed EXCEPT ![c] = FALSE]
                     /\ UNCHANGED tcp_pool
  /\ wrapper' = [wrapper EXCEPT ![t] = NoConn]
  /\ pc' = [pc EXCEPT ![t] = "idle"]
  /\ UNCHANGED << maxconn, minconn, customVars, created, tokenVars, pm_pool,
                  pool_token >>

\* DSQLPoolManager(minconn <= maxconn) under get_db_connection callers
NextPM ==
  \/ PMInitPool
  \/ PMPoolConnect
  \/ \E t \in Threads : PMStart(t)
  \/ \E t \in Threads : PMGetConn(t)
  \/ \E t \in Threads : PMProbe(t)
  \/ \E t \in Threads : PMCreateSingle(t)
  \/ \E t \in Threads : PMBody(t)
  \/ \E t \in Threads : PMPutConn(t)
  \/ \E c \in Conns : Sever(c)

InitPM == Init /\ minconn <= maxconn

SpecPM == InitPM /\ [][NextPM]_vars

TypeOK ==
  /\ Len(pool) <= maxconn
  /\ created \in 0..MaxCreated
  /\ pool_lock \in {0} \cup Threads

\* ------------------------------------------------------------------ claims
Age(c) == now - created_at[c]

\* C1: in every reachable state the number of idle connections plus the
\* number of connections checked out to callers is at most maxconn.
C1_Ceiling == Len(pool) + Cardinality(CheckedOut) <= maxconn

\* C2: no connection is checked out to two threads at once, none is both in
\* the idle queue and checked out, and none is in the idle queue twice.
C2_NoSharing ==
  /\ \A t, u \in Threads :
       (t # u /\ Holding(t) /\ Holding(u)) => wrapper[t] # wrapper[u]
  /\ CheckedOut \cap Range(pool) = {}
  /\ Cardinality(Range(pool)) = Len(pool)

C2_Witness ==
  \E t, u \in Threads :
    /\ t # u
    /\ pc[t] = "body" /\ pc[u] = "body"
    /\ popped[t] = wrapper[t]

\* C3: a connection whose latest is_healthy() probe failed is closed, is not
\* in the idle queue and is not held by any caller: get_connection hands out
\* a popped connection only when its probe succeeded.
C3_NeverReturnsFailedProbe ==
  \A c \in Conns :
    probe_failed[c] => (closed[c] /\ c \notin Range(pool) /\ c \notin CheckedOut)

C3_Witness ==
  \E t \in Threads :
    /\ pc[t] = "body"
    /\ result[t] = "conn"
    /\ popped[t] # NoConn
    /\ probe_failed[popped[t]]
    /\ wrapper[t] # popped[t]

\* C4: when maxconn connections are checked out and the idle queue is empty,
\* a get_connection that found the queue empty fails at once with the
\* pool-exhausted error and changes neither the queue, nor the counter, nor
\* the number of connections ever opened.
C4_ExhaustedAtCapacity ==
  [][\A t \in Threads :
       (pc[t] = "empty" /\ pc'[t] # "empty"
        /\ pool = << >> /\ Cardinality(CheckedOut) = maxconn)
       => (result'[t] = "exhausted" /\ pool' = pool /\ created' = created
           /\ current_connections' = current_connections)]_vars

\* C5: when a get_db_connection scope is over, put_connection has been
\* called exactly once, with the acquired connection, if get_connection
\* returned one (however the with-body ended), and not at all if it raised.
C5_ReleasedExactlyOnce ==
  \A t \in Threads :
    /\ Len(released[t]) <= 1
    /\ pc[t] = "done" =>
         released[t] = IF result[t] = "conn" THEN << wrapper[t] >> ELSE << >>

C5_Witness ==
  \E t, u \in Threads :
    /\ pc[t] = "done" /\ bodyExit[t] \in {"error", "cancel"}
    /\ released[t] = << wrapper[t] >>
    /\ pc[u] = "done" /\ result[u] \in {"exhausted", "create_error"}
    /\ released[u] = << >>

\* C6: once a close_all call has completed, no get_connection returns a
\* connection and no new physical connection is created.
C6_ClosedPoolStaysClosed ==
  [][shutdown =>
       /\ created' = created
       /\ \A t \in Threads : result'[t] = "conn" => result[t] = "conn"]_vars

\* C7: two close_all calls run back to back from any reachable state end in
\* the state the first one ended in: idle queue empty, every connection that
\* was idle closed, _current_connections = 0.
C7_CloseAllIdempotent ==
  quiet.n >= 1 =>
    /\ pool = << >>
    /\ current_connections = 0
    /\ quiet.idle \subseteq ClosedSet
    /\ quiet.n = 2 =>
         /\ pool = quiet.pool
         /\ current_connections = quiet.cur
         /\ ClosedSet = quiet.closed

C7_Witness ==
  /\ quiet.n = 2
  /\ quiet.idle # {}
  /\ CheckedOut # {}

\* C8: after a close_all call has completed the idle queue stays empty: a
\* connection that was checked out during close_all is closed on release
\* instead of being put back.
C8_IdleStaysEmptyAfterShutdown == shutdown => pool = << >>

\* C9 (as claimed): a release after the with-body ended with an error closes
\* the connection and leaves the idle queue as it was.
C9_ErroredNotPutBack ==
  [][\A t \in Threads :
       (pc[t] = "put" /\ pc'[t] # "put" /\ bodyExit[t] \in {"error", "cancel"})
       => (closed'[wrapper[t]] /\ pool' = pool)]_vars

\* C9 (amended): the release does not look at how the with-body ended: the
\* connection is appended to the idle queue, open, whenever the queue is not
\* full, and is closed only when the queue is full.
C9_ReleaseIgnoresError ==
  [][\A t \in Threads :
       (pc[t] = "put" /\ pc'[t] # "put")
       => IF Len(pool) < maxconn
            THEN pool' = Append(pool, wrapper[t]) /\ closed' = closed
            ELSE pool' = pool /\ closed'[wrapper[t]]]_vars

C9_Witness ==
  \E t \in Threads :
    /\ pc[t] = "done"
    /\ bodyExit[t] \in {"error", "cancel"}
    /\ wrapper[t] \in Range(pool)
    /\ ~closed[wrapper[t]]

\* C10 (as claimed): get_connection never returns a connection older than
\* the maximum connection age.
C10_NeverReturnsOverAge ==
  [][\A t \in Threads :
       (pc[t] \in {"probe", "replace", "grow"} /\ pc'[t] = "body")
       => now - created_at'[wrapper'[t]] <= MaxConnectionAge]_vars

\* C10 (amended): age plays no part: a popped idle connection is returned
\* exactly when its closed flag is clear and SELECT 1 succeeds, however old.
C10_AgeIgnored ==
  [][\A t \in Threads :
       (pc[t] = "probe" /\ pc'[t] # "probe")
       => ((pc'[t] = "body" /\ wrapper'[t] = popped[t])
           <=> (~closed[popped[t]] /\ ~severed[popped[t]]))]_vars

C10_Witness ==
  \E t \in Threads :
    /\ pc[t] = "probe"
    /\ ~closed[popped[t]] /\ ~severed[popped[t]]
    /\ Age(popped[t]) > MaxConnectionAge

\* C11: a get_connection that found the queue empty below maxconn and whose
\* token mint or connect failed raises that error to the caller, leaves the
\* counter and the idle queue as they were, and gives up the lock.
C11_CreateErrorLeavesPool ==
  [][\A t \in Threads :
       (pc[t] = "grow" /\ result'[t] = "create_error")
       => /\ current_connections' = current_connections
          /\ pool' = pool
          /\ pool_lock' = 0
          /\ pc'[t] = "done"
          /\ released'[t] = << >>
          /\ created' = created]_vars

C11_Witness ==
  \E t, u \in Threads :
    /\ pc[t] = "done" /\ result[t] = "create_error" /\ popped[t] = NoConn
    /\ pc[u] = "pop" /\ pool_lock = u

C13_OneTokenPerOpen ==
  /\ \A k \in Tokens : token_opens[k] = IF k <= minted THEN 1 ELSE 0
  /\ created <= minted

C13_Witness ==
  /\ minconn >= 1
  /\ minted = MaxMinted
  /\ created < minted
  /\ \E t \in Threads : pc[t] = "body" /\ popped[t] # NoConn /\ wrapper[t] # popped[t]

\* C14 (as claimed): no thread holds _pool_lock while it probes a
\* connection, mints a token or opens a connection.
C14_LockNotHeldAcrossIO ==
  \A t \in Threads : pc[t] \in {"probe", "replace", "grow"} => pool_lock # t

\* C14 (amended): a thread holds _pool_lock exactly while it is inside
\* get_connection, the probe, the mint and the connect included.
C14_LockHeldThroughGet ==
  \A t \in Threads :
    pool_lock = t <=> pc[t] \in {"pop", "probe", "replace", "empty", "grow"}

C14_Witness ==
  \E t, u \in Threads :
    /\ pc[t] \in {"replace", "grow"} /\ pool_lock = t
    /\ pc[u] \in {"lock", "put_lock", "ca_lock"}

C17_Accounting ==
  (Constructed /\ \A t \in Threads : pc[t] \in {"idle", "lock", "body", "put", "done"})
  => /\ current_connections = Len(pool) + Cardinality(CheckedOut)
     /\ current_connections - Len(pool) >= 0

\* C18: a get_connection that found the idle queue empty while no connection
\* is idle and no other thread is inside any operation (so nothing is checked
\* out) does not fail with pool-exhausted.
C18_NoCapacityLost ==
  [][\A t \in Threads :
       (/\ pc[t] = "empty"
        /\ pool = << >>
        /\ \A u \in Threads \ {t} : pc[u] = "idle")
       => result'[t] # "exhausted"]_vars

\* C19: at the step that ends construction the idle queue holds exactly the
\* connections opened by the pre-warm, _current_connections is their number,
\* which is at most minconn, and nothing is checked out.
C19_PrewarmKeepsCreated ==
  [][(init_i # minconn /\ init_i' = minconn)
     => /\ Range(pool') = 1..created'
        /\ Len(pool') = created'
        /\ current_connections' = created'
        /\ created' <= minconn
        /\ \A t \in Threads : pc'[t] = "idle" /\ wrapper'[t] = NoConn]_vars

\* C20: put_connection on a full idle queue closes the released connection,
\* leaves the queue as it was and then, taking the free lock, lowers
\* _current_connections by exactly one and returns; on a queue that is not
\* full it appends the connection and leaves _current_connections alone.
C20_ReleaseOnFullQueue ==
  [][\A t \in Threads :
       /\ (pc[t] = "put" /\ pc'[t] # "put")
          => /\ current_connections' = current_connections
             /\ IF QueueFull(pool, maxconn)
                  THEN /\ closed'[wrapper[t]]
                       /\ pool' = pool
                       /\ pc'[t] = "put_lock"
                  ELSE /\ pool' = Append(pool, wrapper[t])
                       /\ closed' = closed
                       /\ pc'[t] = "done"
       /\ (pc[t] = "put_lock" /\ pc'[t] # "put_lock")
          => /\ pool_lock = 0 /\ pool_lock' = 0
             /\ current_connections' = current_connections - 1
             /\ pool' = pool
             /\ closed' = closed
             /\ pc'[t] = "done"]_vars

C20_Witness ==
  \E t \in Threads :
    /\ pc[t] = "done"
    /\ released[t] = << wrapper[t] >>
    /\ closed[wrapper[t]]
    /\ wrapper[t] \notin Range(pool)
    /\ Len(pool) = maxconn

\* C21: a get_connection whose popped idle connection is healthy returns that
\* same connection without a mint, an open or a change of _current_connections;
\* a thread opens a connection or mints a token only after it found the idle
\* queue empty or after the connection it popped failed its probe.
C21_Reuse ==
  [][\A t \in Threads :
       /\ (pc[t] = "probe" /\ pc'[t] # "probe" /\ IsHealthy(popped[t]))
          => /\ pc'[t] = "body"
             /\ wrapper'[t] = popped[t]
             /\ ~closed'[popped[t]]
             /\ created' = created
             /\ minted' = minted
             /\ current_connections' = current_connections
       /\ (pc[t] # "idle" /\ pc'[t] # pc[t] /\ (created' # created \/ minted' # minted))
          => \/ pc[t] = "grow" /\ popped[t] = NoConn
             \/ pc[t] = "replace" /\ probe_failed[popped[t]]]_vars

C21_Witness ==
  \E t, u \in Threads :
    /\ pc[u] = "done" /\ released[u] # << >>
    /\ pc[t] = "body"
    /\ popped[t] = released[u][1]
    /\ wrapper[t] = popped[t]

\* C24: every connection the pool has opened and not closed is in the idle
\* queue, or checked out to a caller, or in the hands of the get_connection
\* call that popped it and is probing it.
C24_NoLeak ==
  \A c \in 1..created :
    ~closed[c] =>
      \/ c \in Range(pool)
      \/ c \in CheckedOut
      \/ \E t \in Threads : pc[t] = "probe" /\ popped[t] = c

\* C25: a connection the pool has closed is not in the idle queue and is not
\* checked out to any caller.
C25_NoUseAfterClose ==
  \A c \in Conns : closed[c] => (c \notin Range(pool) /\ c \notin CheckedOut)

C25_Witness ==
  /\ Cardinality(ClosedSet) = 2
  /\ \E c \in ClosedSet : probe_failed[c]
  /\ \E c \in ClosedSet : ~probe_failed[c]
  /\ \E t \in Threads : pc[t] = "body" /\ popped[t] = wrapper[t]

\* C26: the idle queue is first in, first out: a connection enters it at the
\* back (pre-warm, put_connection), connections leave it from the front, the
\* order of those that stay never changes, and get_connection pops the one at
\* the front, which has been idle the longest.
C26_Fifo ==
  [][/\ \/ pool' = pool
        \/ \E c \in Conns : c \notin Range(pool) /\ pool' = Append(pool, c)
        \/ pool # << >> /\ pool' = Tail(pool)
     /\ \A t \in Threads :
          /\ (pc[t] = "pop" /\ pc'[t] = "probe")
             => popped'[t] = Head(pool) /\ pool' = Tail(pool)
          /\ (pc[t] = "put" /\ pc'[t] = "done")
             => pool' = Append(pool, wrapper[t])]_vars

C26_Witness ==
  \E t \in Threads :
    /\ pc[t] = "probe"
    /\ Len(pool) = 1
    /\ popped[t] > pool[1]

\* C22: in DSQLPoolManager the number of open physical connections, those
\* of the ThreadedConnectionPool and the individually created replacements
\* together, is at most maxconn.
C22_HardCeiling == Cardinality(OpenConns) <= maxconn

\* C23: in DSQLPoolManager no auth token is the password of more than one
\* psycopg2.connect call.
C23_FreshTokenPerOpen == \A k \in Tokens : token_opens[k] <= 1

====
